---- MODULE Spec2Model ----
(***************************************************************************)
(* Token-based session management of the task manager:                     *)
(*   - backend: JWT codec (utils/auth.ts), refresh-token store (Prisma     *)
(*     table RefreshToken, token @unique), the auth controller (register,  *)
(*     login, refreshToken, logout) and the authenticateToken middleware;  *)
(*   - frontend: the APIClient of lib/api.ts (cookies, interceptors,       *)
(*     single-flight refresh).                                             *)
(* Time is the wall clock in milliseconds (Date.now()).  jsonwebtoken      *)
(* stamps iat = floor(Date.now()/1000), exp = iat + expiresIn, signs with  *)
(* HS256 (deterministic), and rejects a token when                         *)
(* floor(Date.now()/1000) >= exp.  A token value is therefore fully        *)
(* determined by (userId, type, iat, key).                                 *)
(***************************************************************************)
EXTENDS Integers, Sequences, FiniteSets, TLC

\* backend: clock, user table, refresh-token table, requests in flight
VARIABLES now, advances, userDb, store, issued, gone, pc, req, loc, last

\* frontend: one APIClient instance, its cookies, and the server as it sees it
VARIABLES cookieA, cookieR, refreshPromise, promise, call, authPc, authCall,
          srvAccess, srvRefresh, minted

svars == <<now, advances, userDb, store, issued, gone, pc, req, loc, last>>

cvars == <<cookieA, cookieR, refreshPromise, promise, call, authPc, authCall,
           srvAccess, srvRefresh, minted>>

vars == <<svars, cvars>>

----------------------------------------------------------------------------
(* Bounds of the model *)

\* clock steps taken while requests interleave (Spec)
MaxTicks == 2

\* clock steps taken across token lifetimes (SpecTime)
MaxAdvances == 3

\* latest clock value in ms (two refresh-token lifetimes and a bit)
MaxNow == 1300000000

MaxIssued == 2

Procs == {1, 2}

Users == {"u1", "u2"}

\* the accounts that get registered while requests interleave (Spec)
Registrants == {"u1"}

Secrets == {"pw1", "pw2"}

\* clock steps in ms while requests interleave: half a second
Ticks == {500}

\* clock steps in ms over an access token's life: half a second, and 15 minutes
\* less half a second
AccessDeltas == {500, 899500}

\* clock steps in ms over a refresh token's life: half a second, 7 days less
\* half a second, and 7 days
StoreDeltas == {500, 604799500, 604800000}

\* outgoing API calls of the client
NumCalls == 2

Calls == 1 .. NumCalls

\* refreshes the client can start: one per call at most
Promises == 1 .. NumCalls

\* the client stops logging in once the server has minted this many tokens
MaxMinted == 2

\* token values the server mints for one client when auth calls repeat (SpecSession)
MaxSessionMinted == 4

----------------------------------------------------------------------------
(* Program constants *)

MsPerSecond == 1000

ACCESS_EXPIRES_IN == 900

REFRESH_EXPIRES_IN == 604800

STORE_TTL_MS == 604800000

\* lifetimes given to Cookies.set, in minutes (1/96 day and 7 days)
ACCESS_COOKIE_MINUTES == 15

REFRESH_COOKIE_MINUTES == 10080

JWT_ACCESS_SECRET == "fallback-access-secret"

JWT_REFRESH_SECRET == "fallback-refresh-secret"

----------------------------------------------------------------------------
(* Token codec *)

NoTok == [userId |-> "-", type |-> "-", iat |-> 0, exp |-> 0, key |-> "-"]

\* a non-empty string that is not a JWT
Garbage == [userId |-> "-", type |-> "-", iat |-> 0, exp |-> 0, key |-> "malformed"]

ClockTimestamp(t) == t \div MsPerSecond

JwtSign(userId, type, secret, expiresIn, t) ==
  [userId |-> userId, type |-> type, iat |-> ClockTimestamp(t),
   exp |-> ClockTimestamp(t) + expiresIn, key |-> secret]

\* jwt.verify comparing with > : a token still passes in the second of its exp
JwtVerify_ExpLate(token, secret, t) ==
  /\ token.key = secret
  /\ ~(ClockTimestamp(t) > token.exp)

JwtVerify(token, secret, t) ==
  /\ token.key = secret
  /\ ~(ClockTimestamp(t) >= token.exp)

generateAccessToken(userId, t) ==
  JwtSign(userId, "access", JWT_ACCESS_SECRET, ACCESS_EXPIRES_IN, t)

generateRefreshToken(userId, t) ==
  JwtSign(userId, "refresh", JWT_REFRESH_SECRET, REFRESH_EXPIRES_IN, t)

\* TRUE iff verifyAccessToken returns the decoded payload (does not throw)
verifyAccessToken(token, t) ==
  /\ JwtVerify(token, JWT_ACCESS_SECRET, t)
  /\ token.type = "access"

\* verifyRefreshToken left as a copy of verifyAccessToken
verifyRefreshToken_AsAccess(token, t) ==
  /\ JwtVerify(token, JWT_ACCESS_SECRET, t)
  /\ token.type = "access"

\* TRUE iff verifyRefreshToken returns the decoded payload (does not throw)
verifyRefreshToken(token, t) ==
  /\ JwtVerify(token, JWT_REFRESH_SECRET, t)
  /\ token.type = "refresh"

----------------------------------------------------------------------------
(* Credential verifier *)

NoUser == [of |-> "-"]

hashPassword(password) == [of |-> password]

comparePassword(password, hashed) == hashed.of = password

\* the user id returned by authenticateUser, or "-" for null
authenticateUser(email, password) ==
  IF userDb[email] = NoUser THEN "-"
  ELSE IF ~comparePassword(password, userDb[email]) THEN "-"
  ELSE email

----------------------------------------------------------------------------
(* Refresh token store *)

Row(token, userId, expiresAt) ==
  [token |-> token, userId |-> userId, expiresAt |-> expiresAt]

RowsOf(st, token) == {r \in st : r.token = token}

HasRow(st, token) == RowsOf(st, token) # {}

\* prisma.refreshToken.create with token @unique: TRUE iff it does not throw
CanStore(st, token) == ~HasRow(st, token)

storeRefreshToken(st, userId, token, t) ==
  st \cup {Row(token, userId, t + STORE_TTL_MS)}

\* prisma.refreshToken.delete throws when no row matches
CanRemove(st, token) == HasRow(st, token)

\* removal that takes every row of the token's subject with it
removeRefreshToken_OfSubject(st, token) == st \ {r \in st : r.userId = token.userId}

removeRefreshToken(st, token) == st \ RowsOf(st, token)

\* expiry test that counts the instant of expiresAt as expired
RowExpired_Inclusive(r, t) == r.expiresAt <= t

RowExpired(r, t) == r.expiresAt < t

\* the value returned by isRefreshTokenValid
isRefreshTokenValid(st, token, t) ==
  /\ HasRow(st, token)
  /\ \A r \in RowsOf(st, token) : ~RowExpired(r, t)

\* the store left by isRefreshTokenValid (an expired row is removed)
StoreAfterValidCheck(st, token, t) ==
  st \ {r \in RowsOf(st, token) : RowExpired(r, t)}

cleanupExpiredTokens(st, userId, t) ==
  st \ {r \in st : r.userId = userId /\ RowExpired(r, t)}

----------------------------------------------------------------------------
(* Responses *)

\* req.headers.authorization: absent, or a scheme prefix followed by a token
NoHeader == [scheme |-> "-", token |-> NoTok]

\* 'Bearer <token>'; with NoTok the header is 'Bearer ' and nothing after it
Bearer(token) == [scheme |-> "Bearer ", token |-> token]

\* 'Basic <token>': a header that does not start with 'Bearer '
Basic(token) == [scheme |-> "Basic ", token |-> token]

\* 'Bearer' alone, without the space
BearerWord == [scheme |-> "Bearer", token |-> NoTok]

\* the answer of the latest request; at: the call at which the handler stopped,
\* seen: the history known when the request began, hdr: the Authorization header
Resp(op, tok, t0, status, code, a, r) ==
  [op |-> op, tok |-> tok, t0 |-> t0, status |-> status, code |-> code,
   a |-> a, r |-> r, who |-> "-", pw |-> "-", at |-> "-", seen |-> {},
   hdr |-> NoHeader]

LoginResp(op, email, pw, status, code, a, r) ==
  [op |-> op, tok |-> NoTok, t0 |-> 0, status |-> status, code |-> code,
   a |-> a, r |-> r, who |-> email, pw |-> pw, at |-> "-", seen |-> {},
   hdr |-> NoHeader]

RefreshResp(tok, at, seen, status, code, a, r) ==
  [op |-> "refresh", tok |-> tok, t0 |-> 0, status |-> status, code |-> code,
   a |-> a, r |-> r, who |-> "-", pw |-> "-", at |-> at, seen |-> seen,
   hdr |-> NoHeader]

Quiet == Resp("-", NoTok, 0, 0, "-", NoTok, NoTok)

Pair(a, r, t0) == [a |-> a, r |-> r, t0 |-> t0]

NoLoc == [userId |-> "-", a |-> NoTok, r |-> NoTok, t0 |-> 0, seen |-> {}]

Gone(token, how) == [tok |-> token, how |-> how]

\* rows dropped between two stores, recorded with the reason
Dropped(st, st2, how) == {Gone(r.token, how) : r \in st \ st2}

\* history: gone keeps one of the events (removal of a row, logout of a value)
\* that have happened, any one of them
Note(events) ==
  gone' \in (IF gone = {} THEN {{}} \cup {{e} : e \in events} ELSE {gone})

\* the model stops issuing after MaxIssued token pairs
RoomToIssue == Cardinality(issued) < MaxIssued

\* token values a caller can present
KnownRefresh == {k.r : k \in issued}

KnownAccess == {k.a : k \in issued}

Presentable == KnownRefresh \cup KnownAccess \cup {Garbage}

\* client side: tokens are opaque values 1, 2, ...; 0 is no token / null
NoPromise == [st |-> "none", body |-> 0, reply |-> "none", a |-> 0, r |-> 0, posts |-> 0]

NoCall == [pc |-> "idle", retry |-> FALSE, hdr |-> 0, awaits |-> 0, result |-> "-"]

\* the apiClient.auth call in flight: op login / refresh / logout, good: the
\* credentials are right, body: the refresh token in the request body
NoAuth == [op |-> "-", good |-> TRUE, retry |-> FALSE, awaits |-> 0, body |-> 0,
           result |-> "-"]

----------------------------------------------------------------------------
(* Initial state: empty database, clock at the epoch of the model *)

InitServer ==
  /\ now = 0
  /\ advances = 0
  /\ userDb = [u \in Users |-> NoUser]
  /\ store = {}
  /\ issued = {}
  /\ gone = {}
  /\ pc = [p \in Procs |-> "idle"]
  /\ req = [p \in Procs |-> NoTok]
  /\ loc = [p \in Procs |-> NoLoc]
  /\ last = Quiet

\* new APIClient(): no cookies, no refresh in flight
InitClient ==
  /\ cookieA = 0
  /\ cookieR = 0
  /\ refreshPromise = 0
  /\ promise = [i \in Promises |-> NoPromise]
  /\ call = [c \in Calls |-> NoCall]
  /\ authPc = "idle"
  /\ authCall = NoAuth
  /\ srvAccess = {}
  /\ srvRefresh = {}
  /\ minted = 0

Init == InitServer /\ InitClient

Advance(d, limit) ==
  /\ advances < limit
  /\ now + d <= MaxNow
  /\ now' = now + d
  /\ advances' = advances + 1
  /\ last' = Quiet
  /\ UNCHANGED <<userDb, store, issued, gone, pc, req, loc>>
  /\ UNCHANGED cvars


----------------------------------------------------------------------------
(* Auth controller *)

\* POST /api/auth/register
Register(email, password) ==
  LET a == generateAccessToken(email, now)
      r == generateRefreshToken(email, now)
  IN
  /\ IF userDb[email] # NoUser
     THEN \* createUser throws '... already exists'
          /\ last' = LoginResp("register", email, password, 409, "DUPLICATE_EMAIL", NoTok, NoTok)
          /\ UNCHANGED <<userDb, store, issued, gone>>
     ELSE /\ RoomToIssue
          /\ userDb' = [userDb EXCEPT ![email] = hashPassword(password)]
          /\ IF ~CanStore(store, r)
             THEN /\ last' = LoginResp("register", email, password, 500, "INTERNAL_SERVER_ERROR", NoTok, NoTok)
                  /\ UNCHANGED <<store, issued, gone>>
             ELSE /\ store' = cleanupExpiredTokens(storeRefreshToken(store, email, r, now), email, now)
                  /\ Note(Dropped(storeRefreshToken(store, email, r, now), store', "expired"))
                  /\ issued' = issued \cup {Pair(a, r, now)}
                  /\ last' = LoginResp("register", email, password, 201, "OK", a, r)
  /\ UNCHANGED <<now, advances, pc, req, loc>>
  /\ UNCHANGED cvars

\* login that tells an unknown email from a wrong password
Login_TellsNoAccount(email, password) ==
  LET user == authenticateUser(email, password)
      a == generateAccessToken(user, now)
      r == generateRefreshToken(user, now)
  IN
  /\ IF user = "-"
     THEN /\ last' = LoginResp("login", email, password, 401,
                                IF userDb[email] = NoUser THEN "USER_NOT_FOUND"
                                ELSE "INVALID_CREDENTIALS", NoTok, NoTok)
          /\ UNCHANGED <<store, issued, gone>>
     ELSE /\ RoomToIssue
          /\ IF ~CanStore(store, r)
             THEN \* unique constraint violation, caught as unexpected error
                  /\ last' = LoginResp("login", email, password, 500, "INTERNAL_SERVER_ERROR", NoTok, NoTok)
                  /\ UNCHANGED <<store, issued, gone>>
             ELSE /\ store' = cleanupExpiredTokens(storeRefreshToken(store, user, r, now), user, now)
                  /\ Note(Dropped(storeRefreshToken(store, user, r, now), store', "expired"))
                  /\ issued' = issued \cup {Pair(a, r, now)}
                  /\ last' = LoginResp("login", email, password, 200, "OK", a, r)
  /\ UNCHANGED <<now, advances, userDb, pc, req, loc>>
  /\ UNCHANGED cvars

\* POST /api/auth/login
Login(email, password) ==
  LET user == authenticateUser(email, password)
      a == generateAccessToken(user, now)
      r == generateRefreshToken(user, now)
  IN
  /\ IF user = "-"
     THEN /\ last' = LoginResp("login", email, password, 401, "INVALID_CREDENTIALS", NoTok, NoTok)
          /\ UNCHANGED <<store, issued, gone>>
     ELSE /\ RoomToIssue
          /\ IF ~CanStore(store, r)
             THEN \* unique constraint violation, caught as unexpected error
                  /\ last' = LoginResp("login", email, password, 500, "INTERNAL_SERVER_ERROR", NoTok, NoTok)
                  /\ UNCHANGED <<store, issued, gone>>
             ELSE /\ store' = cleanupExpiredTokens(storeRefreshToken(store, user, r, now), user, now)
                  /\ Note(Dropped(storeRefreshToken(store, user, r, now), store', "expired"))
                  /\ issued' = issued \cup {Pair(a, r, now)}
                  /\ last' = LoginResp("login", email, password, 200, "OK", a, r)
  /\ UNCHANGED <<now, advances, userDb, pc, req, loc>>
  /\ UNCHANGED cvars

\* POST /api/auth/refresh, up to the answer of isRefreshTokenValid
RefreshCheck(p, token) ==
  /\ pc[p] = "idle"
  /\ IF ~verifyRefreshToken(token, now)
     THEN \* 'Invalid or expired refresh token' thrown and caught
          /\ last' = RefreshResp(token, "verify", gone, 401, "INVALID_REFRESH_TOKEN", NoTok, NoTok)
          /\ UNCHANGED <<store, gone, pc, req, loc>>
     ELSE IF ~isRefreshTokenValid(store, token, now)
     THEN /\ store' = StoreAfterValidCheck(store, token, now)
          /\ Note(Dropped(store, store', "expired"))
          /\ last' = RefreshResp(token, "check", gone, 401, "INVALID_REFRESH_TOKEN", NoTok, NoTok)
          /\ UNCHANGED <<pc, req, loc>>
     ELSE /\ RoomToIssue
          /\ pc' = [pc EXCEPT ![p] = "valid"]
          /\ req' = [req EXCEPT ![p] = token]
          /\ loc' = [loc EXCEPT ![p] = [NoLoc EXCEPT !.seen = gone]]
          /\ last' = Quiet
          /\ UNCHANGED <<store, gone>>
  /\ UNCHANGED <<now, advances, userDb, issued>>
  /\ UNCHANGED cvars

\* new tokens are generated, then removeRefreshToken(old)
RefreshRotate(p) ==
  LET token == req[p]
      a == generateAccessToken(token.userId, now)
      r == generateRefreshToken(token.userId, now)
  IN
  /\ pc[p] = "valid"
  /\ IF ~CanRemove(store, token)
     THEN \* prisma 'Record to delete does not exist' falls to the 500 branch
          /\ last' = RefreshResp(token, "remove", loc[p].seen, 500, "INTERNAL_SERVER_ERROR", NoTok, NoTok)
          /\ pc' = [pc EXCEPT ![p] = "idle"]
          /\ req' = [req EXCEPT ![p] = NoTok]
          /\ loc' = [loc EXCEPT ![p] = NoLoc]
          /\ UNCHANGED <<store, gone>>
     ELSE /\ store' = removeRefreshToken(store, token)
          /\ Note({Gone(token, "rotated")})
          /\ loc' = [loc EXCEPT ![p] = [userId |-> token.userId, a |-> a, r |-> r,
                                         t0 |-> now, seen |-> loc[p].seen]]
          /\ pc' = [pc EXCEPT ![p] = "removed"]
          /\ last' = Quiet
          /\ UNCHANGED req
  /\ UNCHANGED <<now, advances, userDb, issued>>
  /\ UNCHANGED cvars

\* storeRefreshToken(new) and the response
RefreshStore(p) ==
  /\ pc[p] = "removed"
  /\ IF ~CanStore(store, loc[p].r)
     THEN \* unique constraint violation, caught as unexpected error
          /\ last' = RefreshResp(req[p], "store", loc[p].seen, 500, "INTERNAL_SERVER_ERROR", NoTok, NoTok)
          /\ UNCHANGED <<store, issued, gone>>
     ELSE /\ store' = storeRefreshToken(store, loc[p].userId, loc[p].r, now)
          /\ issued' = issued \cup {Pair(loc[p].a, loc[p].r, loc[p].t0)}
          /\ Note({Gone(req[p], "consumed")})
          /\ last' = RefreshResp(req[p], "done", loc[p].seen, 200, "OK", loc[p].a, loc[p].r)
  /\ pc' = [pc EXCEPT ![p] = "idle"]
  /\ req' = [req EXCEPT ![p] = NoTok]
  /\ loc' = [loc EXCEPT ![p] = NoLoc]
  /\ UNCHANGED <<now, advances, userDb>>
  /\ UNCHANGED cvars

\* POST /api/auth/logout
Logout(token) ==
  /\ IF ~CanRemove(store, token)
     THEN \* delete throws; the catch still answers success
          /\ Note({Gone(token, "logout0")})
          /\ UNCHANGED store
     ELSE /\ store' = removeRefreshToken(store, token)
          /\ Note({Gone(token, "logout")})
  /\ last' = Resp("logout", token, now, 200, "OK", NoTok, NoTok)
  /\ UNCHANGED <<now, advances, userDb, issued, pc, req, loc>>
  /\ UNCHANGED cvars

\* POST /api/auth/register while the database fails under cleanupExpiredTokens:
\* the user and the row are in, deleteMany rejects, the catch answers 500
RegisterCleanupFails(email, password) ==
  LET r == generateRefreshToken(email, now) IN
  /\ userDb[email] = NoUser
  /\ RoomToIssue
  /\ CanStore(store, r)
  /\ userDb' = [userDb EXCEPT ![email] = hashPassword(password)]
  /\ store' = storeRefreshToken(store, email, r, now)
  /\ last' = [LoginResp("register", email, password, 500, "INTERNAL_SERVER_ERROR", NoTok, NoTok)
                EXCEPT !.at = "cleanup"]
  /\ UNCHANGED <<now, advances, issued, gone, pc, req, loc>>
  /\ UNCHANGED cvars

\* POST /api/auth/login while the database fails under cleanupExpiredTokens
LoginCleanupFails(email, password) ==
  LET user == authenticateUser(email, password)
      r == generateRefreshToken(user, now)
  IN
  /\ user # "-"
  /\ RoomToIssue
  /\ CanStore(store, r)
  /\ store' = storeRefreshToken(store, user, r, now)
  /\ last' = [LoginResp("login", email, password, 500, "INTERNAL_SERVER_ERROR", NoTok, NoTok)
                EXCEPT !.at = "cleanup"]
  /\ UNCHANGED <<now, advances, userDb, issued, gone, pc, req, loc>>
  /\ UNCHANGED cvars

\* isRefreshTokenValid(token) called on the store as it is; code: the value
\* returned
IsRefreshTokenValid(token) ==
  /\ store' = StoreAfterValidCheck(store, token, now)
  /\ Note(Dropped(store, store', "expired"))
  /\ last' = Resp("isValid", token, now, 0,
                  IF isRefreshTokenValid(store, token, now) THEN "true" ELSE "false",
                  NoTok, NoTok)
  /\ UNCHANGED <<now, advances, userDb, issued, pc, req, loc>>
  /\ UNCHANGED cvars

----------------------------------------------------------------------------
(* Authentication middleware *)

\* token extraction that takes the token of any scheme
ExtractToken_AnyScheme(authHeader) == authHeader.token

\* authHeader && authHeader.startsWith('Bearer ') ? authHeader.substring(7) : null
\* (NoTok stands for null and for the empty string: both are falsy)
ExtractToken(authHeader) ==
  IF authHeader.scheme = "Bearer " THEN authHeader.token ELSE NoTok

\* authenticateToken that also wants a stored session of the subject
authenticateToken_NeedsSession(token, t) ==
  IF token = NoTok THEN "MISSING_TOKEN"
  ELSE IF ~verifyAccessToken(token, t) THEN "INVALID_TOKEN"
  ELSE IF {r \in store : r.userId = token.userId} = {} THEN "INVALID_TOKEN"
  ELSE IF userDb[token.userId] = NoUser THEN "USER_NOT_FOUND"
  ELSE "OK"

authenticateToken(token, t) ==
  IF token = NoTok THEN "MISSING_TOKEN"
  ELSE IF ~verifyAccessToken(token, t) THEN "INVALID_TOKEN"
  ELSE IF userDb[token.userId] = NoUser THEN "USER_NOT_FOUND"
  ELSE "OK"

\* a protected route called with Authorization: Bearer token (NoTok: no header)
Authorize(token, t0) ==
  /\ last' = [Resp("authorize", token, t0,
                   IF authenticateToken(token, now) = "OK" THEN 200 ELSE 401,
                   authenticateToken(token, now), NoTok, NoTok)
                EXCEPT !.hdr = IF token = NoTok THEN NoHeader ELSE Bearer(token)]
  /\ UNCHANGED <<now, advances, userDb, store, issued, gone, pc, req, loc>>
  /\ UNCHANGED cvars

\* Authorization headers of other shapes: no token after 'Bearer ', 'Bearer'
\* alone, another scheme in front of a token, a malformed token
Headers == {Bearer(NoTok), BearerWord, Bearer(Garbage)} \cup {Basic(a) : a \in KnownAccess}

\* a protected route called with the Authorization header authHeader; code OK
\* stands for next() being called, every other code for the 401 answer
AuthorizeHeader(authHeader) ==
  LET token == ExtractToken(authHeader) IN
  /\ last' = [Resp("authorize", token, 0,
                   IF authenticateToken(token, now) = "OK" THEN 200 ELSE 401,
                   authenticateToken(token, now), NoTok, NoTok)
                EXCEPT !.hdr = authHeader]
  /\ UNCHANGED <<now, advances, userDb, store, issued, gone, pc, req, loc>>
  /\ UNCHANGED cvars

----------------------------------------------------------------------------

\* request slots are interchangeable: slot p is taken only when the lower ones are busy
Free(p) == \A q \in Procs : q < p => pc[q] # "idle"

Next ==
  \/ \E d \in Ticks : Advance(d, MaxTicks)
  \/ \E u \in Registrants : Register(u, "pw1")
  \/ \E u \in Users, s \in Secrets : Login(u, s)
  \/ \E p \in Procs, t \in Presentable : Free(p) /\ RefreshCheck(p, t)
  \/ \E p \in Procs : RefreshRotate(p)
  \/ \E p \in Procs : RefreshStore(p)
  \/ \E t \in KnownRefresh \cup {Garbage} : Logout(t)
  \/ \E k \in issued : Authorize(k.a, k.t0)
  \/ \E k \in issued : Authorize(k.r, k.t0)
  \/ \E t \in {Garbage, NoTok} : Authorize(t, 0)

Spec == Init /\ [][Next]_vars

\* the same server over an access token's lifetime: one request at a time,
\* long clock steps taken between requests
NextTime ==
  \/ \E d \in AccessDeltas : pc[1] = "idle" /\ Advance(d, MaxAdvances)
  \/ \E u \in Registrants : Register(u, "pw1")
  \/ \E u \in Registrants : Login(u, "pw1")
  \/ \E t \in KnownRefresh \cup KnownAccess : RefreshCheck(1, t)
  \/ RefreshRotate(1)
  \/ RefreshStore(1)
  \/ \E t \in KnownRefresh : Logout(t)
  \/ \E k \in issued : Authorize(k.a, k.t0)
  \/ \E k \in issued : Authorize(k.r, k.t0)

SpecTime == Init /\ [][NextTime]_vars

\* the ways in: register, login with any email and secret, and the protected
\* routes called with any shape of Authorization header, over token lifetimes
NextGate ==
  \/ \E d \in AccessDeltas : Advance(d, MaxAdvances)
  \/ \E u \in Registrants : Register(u, "pw1")
  \/ \E u \in Users, s \in Secrets : Login(u, s)
  \/ \E t \in KnownRefresh : Logout(t)
  \/ \E k \in issued : Authorize(k.a, k.t0)
  \/ \E k \in issued : Authorize(k.r, k.t0)
  \/ Authorize(NoTok, 0)
  \/ \E h \in Headers : AuthorizeHeader(h)

SpecGate == Init /\ [][NextGate]_vars

\* the server over a refresh token's lifetime: one request at a time, clock
\* steps of a week between requests, the database failing under housekeeping
NextExpiry ==
  \/ \E d \in StoreDeltas : pc[1] = "idle" /\ Advance(d, MaxAdvances)
  \/ \E u \in Registrants : Register(u, "pw1")
  \/ \E u \in Registrants : Login(u, "pw1")
  \/ \E u \in Registrants : RegisterCleanupFails(u, "pw1")
  \/ \E u \in Registrants : LoginCleanupFails(u, "pw1")
  \/ \E t \in KnownRefresh : RefreshCheck(1, t)
  \/ RefreshRotate(1)
  \/ RefreshStore(1)
  \/ \E t \in KnownRefresh : IsRefreshTokenValid(t)

SpecExpiry == Init /\ [][NextExpiry]_vars

\* the server with the sessions of two subjects side by side: one request at
\* a time, clock steps of half a second between requests, any known or
\* malformed token presented to refresh and to logout
NextSiblings ==
  \/ \E d \in Ticks : pc[1] = "idle" /\ Advance(d, MaxTicks)
  \/ \E u \in Users : Register(u, "pw1")
  \/ \E u \in Users : Login(u, "pw1")
  \/ \E t \in KnownRefresh \cup {Garbage} : RefreshCheck(1, t)
  \/ RefreshRotate(1)
  \/ RefreshStore(1)
  \/ \E t \in KnownRefresh \cup {Garbage} : Logout(t)

SpecSiblings == Init /\ [][NextSiblings]_vars

----------------------------------------------------------------------------
(* Frontend: APIClient *)

getAccessToken == cookieA

getRefreshToken == cookieR

\* setTokens that leaves the access-token cookie as it was
setTokens_KeepsAccess(accessToken, refreshToken) == [a |-> cookieA, r |-> refreshToken]

\* setTokens: the cookies after it
setTokens(accessToken, refreshToken) == [a |-> accessToken, r |-> refreshToken]

\* clearTokens that removes the access-token cookie only
clearTokens_AccessOnly == [a |-> 0, r |-> cookieR]

\* clearTokens: the cookies after it
clearTokens == [a |-> 0, r |-> 0]

\* auth.getCurrentUser
getCurrentUser == [accessToken |-> getAccessToken, refreshToken |-> getRefreshToken]

\* a cookie expiring at any moment, whatever the other cookie's expiry
CanExpire_Any(own, other, otherStored) == TRUE

\* the two cookies are always written together (setTokens), each with its own
\* lifetime: a cookie can be the one that expires while the other is still
\* stored only if its lifetime is not the longer one
CanExpire(own, other, otherStored) == ~otherStored \/ own <= other

\* request interceptor that reads the cookie as it was before this turn
RequestInterceptor_Stale(accessCookie, hdr) ==
  IF cookieA # 0 THEN cookieA ELSE hdr

\* request interceptor: the Authorization header a request leaves with
RequestInterceptor(accessCookie, hdr) ==
  IF accessCookie # 0 THEN accessCookie ELSE hdr

\* refreshAccessToken with the guard on the pending refresh left out
JoinsPending_Never(rp) == FALSE

\* refreshAccessToken: a refresh is in flight and the caller shares it
JoinsPending(rp) == rp # 0

\* the promise cell performTokenRefresh fills next
NewPromise == CHOOSE i \in Promises :
                /\ promise[i].st = "none"
                /\ \A j \in Promises : promise[j].st = "none" => i <= j

\* the model has room for one more refresh
FreeCell == \E i \in Promises : promise[i].st = "none"

Waiting(i) == {c \in Calls : call[c].pc = "waiting" /\ call[c].awaits = i}

\* apiClient.auth.login (auth.register alike): POST /api/auth/login leaves,
\* with credentials that are right (good) or not
LoginSend(good, limit) ==
  /\ authPc = "idle"
  /\ good => minted < limit
  /\ authPc' = "login"
  /\ authCall' = [NoAuth EXCEPT !.op = "login", !.good = good]
  /\ UNCHANGED <<cookieA, cookieR, refreshPromise, promise, call, srvAccess, srvRefresh, minted>>
  /\ UNCHANGED svars

\* the server issues a pair and auth.login stores it (setTokens)
LoginOk ==
  /\ authPc \in {"login", "resent"}
  /\ authCall.op = "login" /\ authCall.good
  /\ srvAccess' = srvAccess \cup {minted + 1}
  /\ srvRefresh' = srvRefresh \cup {minted + 2}
  /\ minted' = minted + 2
  /\ cookieA' = setTokens(minted + 1, minted + 2).a
  /\ cookieR' = setTokens(minted + 1, minted + 2).r
  /\ authPc' = "returned"
  /\ authCall' = [authCall EXCEPT !.result = "ok"]
  /\ UNCHANGED <<refreshPromise, promise, call>>
  /\ UNCHANGED svars

\* the auth call's promise has settled and the caller has gone on
AuthReturn ==
  /\ authPc = "returned"
  /\ authPc' = "idle"
  /\ authCall' = NoAuth
  /\ UNCHANGED <<cookieA, cookieR, refreshPromise, promise, call, srvAccess, srvRefresh, minted>>
  /\ UNCHANGED svars

\* a 401 answer to a call of apiClient.auth reaches the response interceptor:
\* refreshAccessToken and performTokenRefresh up to its await
Auth401 ==
  /\ IF authCall.retry
     THEN \* a 401 on a call already retried is rejected to the caller
          /\ authPc' = "returned"
          /\ authCall' = [authCall EXCEPT !.result = "rejected"]
          /\ UNCHANGED <<cookieA, cookieR, refreshPromise, promise>>
     ELSE IF JoinsPending(refreshPromise)
     THEN /\ authPc' = "waiting"
          /\ authCall' = [authCall EXCEPT !.retry = TRUE, !.awaits = refreshPromise]
          /\ UNCHANGED <<cookieA, cookieR, refreshPromise, promise>>
     ELSE IF getRefreshToken = 0
     THEN \* 'No refresh token available': clearTokens, reject with that error
          /\ authPc' = "returned"
          /\ authCall' = [authCall EXCEPT !.retry = TRUE, !.result = "norefresh"]
          /\ cookieA' = clearTokens.a
          /\ cookieR' = clearTokens.r
          /\ refreshPromise' = 0
          /\ UNCHANGED promise
     ELSE \* POST /api/auth/refresh leaves with the stored refresh token
          /\ FreeCell
          /\ promise' = [promise EXCEPT ![NewPromise] =
                           [NoPromise EXCEPT !.st = "pending", !.body = getRefreshToken,
                                             !.posts = 1]]
          /\ refreshPromise' = NewPromise
          /\ authPc' = "waiting"
          /\ authCall' = [authCall EXCEPT !.retry = TRUE, !.awaits = NewPromise]
          /\ UNCHANGED <<cookieA, cookieR>>
  /\ UNCHANGED <<call, srvAccess, srvRefresh, minted>>
  /\ UNCHANGED svars

\* POST /api/auth/login is answered 401 INVALID_CREDENTIALS
LoginDenied ==
  /\ authPc \in {"login", "resent"}
  /\ authCall.op = "login" /\ ~authCall.good
  /\ Auth401

\* apiClient.auth.refresh: throws without a stored refresh token, else
\* POST /api/auth/refresh leaves through this.client
AuthRefreshSend ==
  /\ authPc = "idle"
  /\ IF getRefreshToken = 0
     THEN /\ authPc' = "returned"
          /\ authCall' = [NoAuth EXCEPT !.op = "refresh", !.result = "norefresh"]
     ELSE /\ authPc' = "refresh"
          /\ authCall' = [NoAuth EXCEPT !.op = "refresh", !.body = getRefreshToken]
  /\ UNCHANGED <<cookieA, cookieR, refreshPromise, promise, call, srvAccess, srvRefresh, minted>>
  /\ UNCHANGED svars

\* the server rotates the token of auth.refresh and the client stores the pair
AuthRefreshOk(limit) ==
  /\ authPc \in {"refresh", "resent"}
  /\ authCall.op = "refresh"
  /\ authCall.body \in srvRefresh
  /\ minted < limit
  /\ srvAccess' = srvAccess \cup {minted + 1}
  /\ srvRefresh' = (srvRefresh \ {authCall.body}) \cup {minted + 2}
  /\ minted' = minted + 2
  /\ cookieA' = setTokens(minted + 1, minted + 2).a
  /\ cookieR' = setTokens(minted + 1, minted + 2).r
  /\ authPc' = "returned"
  /\ authCall' = [authCall EXCEPT !.result = "ok"]
  /\ UNCHANGED <<refreshPromise, promise, call>>
  /\ UNCHANGED svars

\* POST /api/auth/refresh of auth.refresh is answered 401 INVALID_REFRESH_TOKEN
AuthRefreshDenied ==
  /\ authPc \in {"refresh", "resent"}
  /\ authCall.op = "refresh"
  /\ authCall.body \notin srvRefresh
  /\ Auth401

\* apiClient.auth.logout: without a stored refresh token clearTokens at once,
\* else POST /api/auth/logout leaves
LogoutSend ==
  /\ authPc = "idle"
  /\ IF getRefreshToken = 0
     THEN /\ authPc' = "returned"
          /\ authCall' = [NoAuth EXCEPT !.op = "logout", !.result = "loggedout"]
          /\ cookieA' = clearTokens.a
          /\ cookieR' = clearTokens.r
     ELSE /\ authPc' = "logout"
          /\ authCall' = [NoAuth EXCEPT !.op = "logout", !.body = getRefreshToken]
          /\ UNCHANGED <<cookieA, cookieR>>
  /\ UNCHANGED <<refreshPromise, promise, call, srvAccess, srvRefresh, minted>>
  /\ UNCHANGED svars

\* the server removes the row and answers success; clearTokens
LogoutOk ==
  /\ authPc = "logout"
  /\ srvRefresh' = srvRefresh \ {authCall.body}
  /\ cookieA' = clearTokens.a
  /\ cookieR' = clearTokens.r
  /\ authPc' = "returned"
  /\ authCall' = [authCall EXCEPT !.result = "loggedout"]
  /\ UNCHANGED <<refreshPromise, promise, call, srvAccess, minted>>
  /\ UNCHANGED svars

\* auth.logout whose failed server request leaves the cookies in place
AuthFail_KeepsTokens ==
  /\ authPc \in {"login", "refresh", "logout", "resent"}
  /\ authPc' = "returned"
  /\ authCall' = [authCall EXCEPT !.result = IF authCall.op = "logout" THEN "loggedout"
                                              ELSE "rejected"]
  /\ UNCHANGED <<cookieA, cookieR>>
  /\ UNCHANGED <<refreshPromise, promise, call, srvAccess, srvRefresh, minted>>
  /\ UNCHANGED svars

\* the request of an auth call fails otherwise than by a 401 (no response, a
\* timeout, a 500): rejected to the caller; auth.logout catches it and goes on
\* to clearTokens
AuthFail ==
  /\ authPc \in {"login", "refresh", "logout", "resent"}
  /\ authPc' = "returned"
  /\ IF authCall.op = "logout"
     THEN /\ authCall' = [authCall EXCEPT !.result = "loggedout"]
          /\ cookieA' = clearTokens.a
          /\ cookieR' = clearTokens.r
     ELSE /\ authCall' = [authCall EXCEPT !.result = "rejected"]
          /\ UNCHANGED <<cookieA, cookieR>>
  /\ UNCHANGED <<refreshPromise, promise, call, srvAccess, srvRefresh, minted>>
  /\ UNCHANGED svars

\* a call to a protected route leaves through the request interceptor
ApiSend(c) ==
  /\ call[c].pc = "idle"
  /\ call' = [call EXCEPT ![c] = [NoCall EXCEPT !.pc = "sent",
                                                 !.hdr = RequestInterceptor(getAccessToken, 0)]]
  /\ UNCHANGED <<cookieA, cookieR, refreshPromise, promise, authPc, authCall, srvAccess, srvRefresh, minted>>
  /\ UNCHANGED svars

\* response interceptor that does not look at _retry: every 401 starts or
\* joins a refresh
ApiReply_RetriesAgain(c) ==
  /\ call[c].pc \in {"sent", "resent"}
  /\ IF call[c].hdr \in srvAccess
     THEN /\ call' = [call EXCEPT ![c].pc = "done", ![c].result = "ok"]
          /\ UNCHANGED <<cookieA, cookieR, refreshPromise, promise>>
     ELSE IF JoinsPending(refreshPromise)
     THEN /\ call' = [call EXCEPT ![c].pc = "waiting", ![c].retry = TRUE,
                                  ![c].awaits = refreshPromise]
          /\ UNCHANGED <<cookieA, cookieR, refreshPromise, promise>>
     ELSE IF getRefreshToken = 0
     THEN /\ call' = [call EXCEPT ![c].pc = "done", ![c].retry = TRUE,
                                  ![c].result = "rejected"]
          /\ cookieA' = clearTokens.a
          /\ cookieR' = clearTokens.r
          /\ refreshPromise' = 0
          /\ UNCHANGED promise
     ELSE /\ FreeCell
          /\ promise' = [promise EXCEPT ![NewPromise] =
                           [NoPromise EXCEPT !.st = "pending", !.body = getRefreshToken,
                                             !.posts = 1]]
          /\ refreshPromise' = NewPromise
          /\ call' = [call EXCEPT ![c].pc = "waiting", ![c].retry = TRUE,
                                  ![c].awaits = NewPromise]
          /\ UNCHANGED <<cookieA, cookieR>>
  /\ UNCHANGED <<authPc, authCall, srvAccess, srvRefresh, minted>>
  /\ UNCHANGED svars

\* the answer to a call arrives: response interceptor, refreshAccessToken and
\* performTokenRefresh up to its await
ApiReply(c) ==
  /\ call[c].pc \in {"sent", "resent"}
  /\ IF call[c].hdr \in srvAccess
     THEN /\ call' = [call EXCEPT ![c].pc = "done", ![c].result = "ok"]
          /\ UNCHANGED <<cookieA, cookieR, refreshPromise, promise>>
     ELSE IF call[c].retry
     THEN \* a 401 on a call already retried is rejected to the caller
          /\ call' = [call EXCEPT ![c].pc = "done", ![c].result = "rejected"]
          /\ UNCHANGED <<cookieA, cookieR, refreshPromise, promise>>
     ELSE IF JoinsPending(refreshPromise)
     THEN /\ call' = [call EXCEPT ![c].pc = "waiting", ![c].retry = TRUE,
                                  ![c].awaits = refreshPromise]
          /\ UNCHANGED <<cookieA, cookieR, refreshPromise, promise>>
     ELSE IF getRefreshToken = 0
     THEN \* 'No refresh token available': clearTokens, reject
          /\ call' = [call EXCEPT ![c].pc = "done", ![c].retry = TRUE,
                                  ![c].result = "rejected"]
          /\ cookieA' = clearTokens.a
          /\ cookieR' = clearTokens.r
          /\ refreshPromise' = 0
          /\ UNCHANGED promise
     ELSE \* POST /api/auth/refresh leaves with the stored refresh token
          /\ promise' = [promise EXCEPT ![NewPromise] =
                           [NoPromise EXCEPT !.st = "pending", !.body = getRefreshToken,
                                             !.posts = 1]]
          /\ refreshPromise' = NewPromise
          /\ call' = [call EXCEPT ![c].pc = "waiting", ![c].retry = TRUE,
                                  ![c].awaits = NewPromise]
          /\ UNCHANGED <<cookieA, cookieR>>
  /\ UNCHANGED <<authPc, authCall, srvAccess, srvRefresh, minted>>
  /\ UNCHANGED svars

\* the server handles POST /api/auth/refresh: rotation, or 401
SrvRefresh(i) ==
  /\ promise[i].st = "pending"
  /\ promise[i].reply = "none"
  /\ IF promise[i].body \in srvRefresh
     THEN /\ promise' = [promise EXCEPT ![i].reply = "ok", ![i].a = minted + 1,
                                        ![i].r = minted + 2]
          /\ srvRefresh' = (srvRefresh \ {promise[i].body}) \cup {minted + 2}
          /\ srvAccess' = srvAccess \cup {minted + 1}
          /\ minted' = minted + 2
     ELSE /\ promise' = [promise EXCEPT ![i].reply = "401"]
          /\ UNCHANGED <<srvAccess, srvRefresh, minted>>
  /\ UNCHANGED <<cookieA, cookieR, refreshPromise, call, authPc, authCall>>
  /\ UNCHANGED svars

\* the POST is lost or times out
NetFail(i) ==
  /\ promise[i].st = "pending"
  /\ promise[i].reply = "none"
  /\ promise' = [promise EXCEPT ![i].reply = "error"]
  /\ UNCHANGED <<cookieA, cookieR, refreshPromise, call, authPc, authCall, srvAccess, srvRefresh, minted>>
  /\ UNCHANGED svars

\* refreshAccessToken without its finally: the marker stays on the settled refresh
RefreshSettle_KeepsMarker(i) ==
  /\ promise[i].st = "pending"
  /\ promise[i].reply # "none"
  /\ refreshPromise' = refreshPromise
  /\ IF promise[i].reply = "ok"
     THEN /\ cookieA' = setTokens(promise[i].a, promise[i].r).a
          /\ cookieR' = setTokens(promise[i].a, promise[i].r).r
          /\ promise' = [promise EXCEPT ![i].st = "resolved"]
          /\ call' = [c \in Calls |->
                        IF c \in Waiting(i)
                        THEN [call[c] EXCEPT !.pc = "resent",
                                !.hdr = RequestInterceptor(cookieA', promise[i].a)]
                        ELSE call[c]]
          /\ IF authPc = "waiting" /\ authCall.awaits = i
             THEN authPc' = "resent" /\ UNCHANGED authCall
             ELSE UNCHANGED <<authPc, authCall>>
     ELSE /\ IF Waiting(i) # {} \/ (authPc = "waiting" /\ authCall.awaits = i)
             THEN cookieA' = clearTokens.a /\ cookieR' = clearTokens.r
             ELSE UNCHANGED <<cookieA, cookieR>>
          /\ promise' = [promise EXCEPT ![i].st = "rejected"]
          /\ call' = [c \in Calls |->
                        IF c \in Waiting(i)
                        THEN [call[c] EXCEPT !.pc = "done", !.result = "rejected"]
                        ELSE call[c]]
          /\ IF authPc = "waiting" /\ authCall.awaits = i
             THEN /\ authPc' = "returned"
                  /\ authCall' = [authCall EXCEPT !.result = "rejected"]
             ELSE UNCHANGED <<authPc, authCall>>
  /\ UNCHANGED <<srvAccess, srvRefresh, minted>>
  /\ UNCHANGED svars

\* the refresh settles: performTokenRefresh ends (setTokens on success), the
\* finally clears refreshPromise, and every caller awaiting it resumes in the
\* same turn: re-sent through the request interceptor, or clearTokens and
\* rejected
RefreshSettle(i) ==
  /\ promise[i].st = "pending"
  /\ promise[i].reply # "none"
  /\ refreshPromise' = 0
  /\ IF promise[i].reply = "ok"
     THEN /\ cookieA' = setTokens(promise[i].a, promise[i].r).a
          /\ cookieR' = setTokens(promise[i].a, promise[i].r).r
          /\ promise' = [promise EXCEPT ![i].st = "resolved"]
          /\ call' = [c \in Calls |->
                        IF c \in Waiting(i)
                        THEN [call[c] EXCEPT !.pc = "resent",
                                !.hdr = RequestInterceptor(cookieA', promise[i].a)]
                        ELSE call[c]]
          /\ IF authPc = "waiting" /\ authCall.awaits = i
             THEN authPc' = "resent" /\ UNCHANGED authCall
             ELSE UNCHANGED <<authPc, authCall>>
     ELSE /\ IF Waiting(i) # {} \/ (authPc = "waiting" /\ authCall.awaits = i)
             THEN cookieA' = clearTokens.a /\ cookieR' = clearTokens.r
             ELSE UNCHANGED <<cookieA, cookieR>>
          /\ promise' = [promise EXCEPT ![i].st = "rejected"]
          /\ call' = [c \in Calls |->
                        IF c \in Waiting(i)
                        THEN [call[c] EXCEPT !.pc = "done", !.result = "rejected"]
                        ELSE call[c]]
          /\ IF authPc = "waiting" /\ authCall.awaits = i
             THEN /\ authPc' = "returned"
                  /\ authCall' = [authCall EXCEPT !.result = "rejected"]
             ELSE UNCHANGED <<authPc, authCall>>
  /\ UNCHANGED <<srvAccess, srvRefresh, minted>>
  /\ UNCHANGED svars

\* an access token reaches its exp, the oldest first (all live 15 minutes):
\* the server no longer accepts it
ExpireAccess(a) ==
  /\ a \in srvAccess
  /\ \A b \in srvAccess : a <= b
  /\ srvAccess' = srvAccess \ {a}
  /\ UNCHANGED <<cookieA, cookieR, refreshPromise, promise, call, authPc, authCall, srvRefresh, minted>>
  /\ UNCHANGED svars

\* the row of the stored refresh token is gone on the server (expiry, a
\* logout or a refresh made elsewhere with the same value)
ExpireRefresh(r) ==
  /\ r \in srvRefresh
  /\ r = cookieR
  /\ srvRefresh' = srvRefresh \ {r}
  /\ UNCHANGED <<cookieA, cookieR, refreshPromise, promise, call, authPc, authCall, srvAccess, minted>>
  /\ UNCHANGED svars

\* the browser drops the access-token cookie after its 15 minutes
ExpireCookie ==
  /\ cookieA # 0
  /\ CanExpire(ACCESS_COOKIE_MINUTES, REFRESH_COOKIE_MINUTES, cookieR # 0)
  /\ cookieA' = 0
  /\ UNCHANGED <<cookieR, refreshPromise, promise, call, authPc, authCall, srvAccess, srvRefresh, minted>>
  /\ UNCHANGED svars

\* the browser drops the refresh-token cookie after its 7 days
ExpireRefreshCookie ==
  /\ cookieR # 0
  /\ CanExpire(REFRESH_COOKIE_MINUTES, ACCESS_COOKIE_MINUTES, cookieA # 0)
  /\ cookieR' = 0
  /\ UNCHANGED <<cookieA, refreshPromise, promise, call, authPc, authCall, srvAccess, srvRefresh, minted>>
  /\ UNCHANGED svars

\* calls are interchangeable: they leave in the order of their numbers
Earlier(c) == \A d \in Calls : d < c => call[d].pc # "idle"

NextClient ==
  \/ LoginSend(TRUE, MaxMinted)
  \/ LoginOk
  \/ AuthReturn
  \/ \E c \in Calls : Earlier(c) /\ ApiSend(c)
  \/ \E c \in Calls : ApiReply(c)
  \/ \E i \in Promises : SrvRefresh(i)
  \/ \E i \in Promises : NetFail(i)
  \/ \E i \in Promises : RefreshSettle(i)
  \/ \E a \in srvAccess : ExpireAccess(a)
  \/ \E r \in srvRefresh : ExpireRefresh(r)
  \/ ExpireCookie

SpecClient == Init /\ [][NextClient]_vars

\* the call to a protected route that runs beside the auth calls (SpecSession)
SessionCalls == {1}

\* the client with every call of apiClient.auth and both cookies' expiry, one
\* call to a protected route beside them
NextSession ==
  \/ \E good \in BOOLEAN : LoginSend(good, MaxSessionMinted)
  \/ LoginOk
  \/ LoginDenied
  \/ AuthRefreshSend
  \/ AuthRefreshOk(MaxSessionMinted)
  \/ AuthRefreshDenied
  \/ LogoutSend
  \/ LogoutOk
  \/ AuthFail
  \/ AuthReturn
  \/ \E c \in SessionCalls : ApiSend(c)
  \/ \E c \in SessionCalls : FreeCell /\ ApiReply(c)
  \/ \E i \in Promises : SrvRefresh(i)
  \/ \E i \in Promises : NetFail(i)
  \/ \E i \in Promises : RefreshSettle(i)
  \/ \E a \in srvAccess : ExpireAccess(a)
  \/ \E r \in srvRefresh : ExpireRefresh(r)
  \/ ExpireCookie
  \/ ExpireRefreshCookie

SpecSession == Init /\ [][NextSession]_vars

----------------------------------------------------------------------------
(* Properties *)

AccessLifeMs == ACCESS_EXPIRES_IN * MsPerSecond

\* C1: a refresh that succeeds leaves no valid row for the token it consumed,
\* and a refresh of a token that an earlier, completed refresh consumed fails
\* with 401 INVALID_REFRESH_TOKEN - at whatever time, the second of the
\* token's issuance included.
C1_RefreshConsumesToken ==
  /\ (last.op = "refresh" /\ last.status = 200
        => ~isRefreshTokenValid(store, last.tok, now))
  /\ (last.op = "refresh" /\ Gone(last.tok, "consumed") \in last.seen
        => last.status = 401 /\ last.code = "INVALID_REFRESH_TOKEN")

\* C3: logout always answers success, and every refresh begun after
\* logout(T) returned fails with 401 INVALID_REFRESH_TOKEN, whatever happened
\* in between.
C3_LogoutIsFinal ==
  /\ (last.op = "logout" => last.status = 200)
  /\ (last.op = "refresh"
        /\ (Gone(last.tok, "logout") \in last.seen \/ Gone(last.tok, "logout0") \in last.seen)
        => last.status = 401 /\ last.code = "INVALID_REFRESH_TOKEN")

\* C4: for a registered subject, login succeeds iff the secret matches the
\* stored digest, in every state of the store, and on success the returned
\* refresh token is valid in the store.
C4_LoginIffSecretMatches ==
  last.op = "login" /\ userDb[last.who] # NoUser
    => /\ (last.status = 200 <=> comparePassword(last.pw, userDb[last.who]))
       /\ (last.status = 200 => isRefreshTokenValid(store, last.r, now))

\* C5: a successful refresh(R1) returns A2, R2 with R2 # R1 and A2 # A1 for
\* the access token A1 issued with R1, and authorize(A2) yields R1's subject.
C5_RotationReturnsNewPair ==
  last.op = "refresh" /\ last.status = 200
    => /\ last.r # last.tok
       /\ \A k \in issued : k.r = last.tok => last.a # k.a
       /\ authenticateToken(last.a, now) = "OK"
       /\ last.a.userId = last.tok.userId

\* C6: a refresh-token value whose row was deleted (rotation, logout, expiry)
\* never has a row again.
C6_NoReturnToActive ==
  \A g \in gone : g.how \in {"rotated", "logout", "expired"} => ~HasRow(store, g.tok)

\* C9: a refresh that stops at the codec check, at the store's validity check
\* or at its own removal of the row (the token was consumed in between) ends
\* with 401 INVALID_REFRESH_TOKEN, never with another failure.
C9_RefreshFailsAsInvalidRefresh ==
  last.op = "refresh" /\ last.at \in {"verify", "check", "remove"}
    => last.status = 401 /\ last.code = "INVALID_REFRESH_TOKEN"

\* C7: no token made by generateAccessToken passes verifyRefreshToken and no
\* token made by generateRefreshToken passes verifyAccessToken, for every
\* subject id; refresh answers 401 to an access token and a protected route
\* answers 401 to a refresh token.
C7_ClassSegregation ==
  /\ \A u \in Users : /\ ~verifyRefreshToken(generateAccessToken(u, now), now)
                       /\ ~verifyAccessToken(generateRefreshToken(u, now), now)
  /\ \A k \in issued : ~verifyRefreshToken(k.a, now) /\ ~verifyAccessToken(k.r, now)
  /\ (last.op = "refresh" /\ last.tok \in KnownAccess => last.status = 401)
  /\ (last.op = "authorize" /\ last.tok \in KnownRefresh => last.status = 401)

\* a protected route has just refused a refresh token that is still good for refresh
C7_Witness ==
  /\ last.op = "authorize" /\ last.tok \in KnownRefresh
  /\ verifyRefreshToken(last.tok, now) /\ HasRow(store, last.tok)
  /\ last.status = 401 /\ last.code = "INVALID_TOKEN"

\* C8 as stated: an access token issued at T0 is rejected at every check time
\* >= T0 + 15 minutes and accepted at every check time before T0 + 15 minutes.
C8_AccessTokenLifetime ==
  last.op = "authorize" /\ last.tok \in KnownAccess /\ userDb[last.tok.userId] # NoUser
    => /\ (now >= last.t0 + AccessLifeMs => last.status = 401)
       /\ (now < last.t0 + AccessLifeMs => last.status = 200)

\* C8 amended: an access token issued at T0 is rejected at every check time
\* >= T0 + 15 minutes and accepted at every check time whose clock second is
\* before the second of T0 plus 900 (so at least until T0 + 15 min - 1 s).
C8_AccessTokenLifetimeInSeconds ==
  last.op = "authorize" /\ last.tok \in KnownAccess /\ userDb[last.tok.userId] # NoUser
    => /\ (now >= last.t0 + AccessLifeMs => last.status = 401)
       /\ (ClockTimestamp(now) < ClockTimestamp(last.t0) + ACCESS_EXPIRES_IN
             => last.status = 200)

\* an access token issued within a second is refused exactly 15 minutes later
C8_Witness ==
  /\ last.op = "authorize" /\ last.tok \in KnownAccess
  /\ last.t0 % MsPerSecond # 0
  /\ now = last.t0 + AccessLifeMs
  /\ last.status = 401

C11_LogoutInvalidatesSession ==
  /\ (last.op = "authorize"
        /\ (\E k \in issued : k.a = last.tok /\ Gone(k.r, "logout") \in gone)
        => last.status = 401)
  /\ (last.op = "refresh" /\ Gone(last.tok, "logout") \in last.seen
        => last.status = 401)

\* C16: a protected route called with no Authorization header, with a header
\* not starting with 'Bearer ', with an empty token or with a token that fails
\* verifyAccessToken answers 401 and next() is not called; the code is
\* MISSING_TOKEN when no token was extracted and INVALID_TOKEN when one was.
C16_UnauthenticatedIsRejected ==
  last.op = "authorize"
    /\ (\/ last.hdr = NoHeader
        \/ last.hdr.scheme # "Bearer "
        \/ last.hdr.token = NoTok
        \/ ~verifyAccessToken(last.hdr.token, now))
    => /\ last.status = 401
       /\ last.code # "OK"
       /\ (last.hdr = NoHeader \/ last.hdr.scheme # "Bearer " \/ last.hdr.token = NoTok
             => last.code = "MISSING_TOKEN")
       /\ (last.hdr.scheme = "Bearer " /\ last.hdr.token # NoTok
             => last.code = "INVALID_TOKEN")

\* a header of another scheme in front of an access token that is good has
\* just been refused as a missing token
C16_Witness ==
  /\ last.op = "authorize"
  /\ last.hdr.scheme = "Basic "
  /\ verifyAccessToken(last.hdr.token, now)
  /\ userDb[last.hdr.token.userId] # NoUser
  /\ last.status = 401 /\ last.code = "MISSING_TOKEN"

\* C17: a login that fails because the email has no account and a login that
\* fails because the secret is wrong get the same answer (401,
\* INVALID_CREDENTIALS, no tokens), and neither changes the refresh-token store.
C17_LoginNonDistinguishing ==
  [][last'.op = "login"
       /\ (userDb[last'.who] = NoUser \/ ~comparePassword(last'.pw, userDb[last'.who]))
       => /\ last'.status = 401
          /\ last'.code = "INVALID_CREDENTIALS"
          /\ last'.a = NoTok /\ last'.r = NoTok
          /\ store' = store]_vars

\* a login for an email without an account has just failed while another
\* subject holds a stored refresh token
C17_Witness ==
  /\ last.op = "login" /\ userDb[last.who] = NoUser
  /\ last.status = 401 /\ last.code = "INVALID_CREDENTIALS"
  /\ store # {}
  /\ \E u \in Users : userDb[u] # NoUser

\* C20: of two refresh calls with the same token that overlap (the second
\* began before the first had answered), at most one returns a token pair.
C20_SingleUseUnderConcurrency ==
  [][last'.op = "refresh" /\ last'.status = 200 /\ pc' # pc
       => ~(Gone(last'.tok, "consumed") \in gone
            /\ Gone(last'.tok, "consumed") \notin last'.seen)]_vars

\* C2: the calls that met a 401 while a refresh was pending all await that one
\* refresh, for which exactly one POST /api/auth/refresh was made and no other
\* is in flight; when it succeeds each of them is re-sent with the access
\* token it returned, and completes successfully while the server accepts
\* that token.
C2_SingleFlight ==
  /\ \A c \in Calls : call[c].pc = "waiting"
       => /\ call[c].awaits = refreshPromise
          /\ promise[call[c].awaits].st = "pending"
          /\ promise[call[c].awaits].posts = 1
  /\ Cardinality({i \in Promises : promise[i].st = "pending"}) <= 1
  /\ \A c \in Calls : call[c].pc \in {"resent", "done"} /\ call[c].awaits # 0
                       /\ promise[call[c].awaits].st = "resolved"
       => /\ call[c].hdr = promise[call[c].awaits].a
          /\ (call[c].pc = "done" /\ call[c].hdr \in srvAccess => call[c].result = "ok")

\* every call met a 401, all shared one refresh, and all have completed
\* successfully with its token
C2_Witness ==
  \E i \in Promises :
    /\ promise[i].st = "resolved" /\ promise[i].posts = 1
    /\ \A j \in Promises : j # i => promise[j].st = "none"
    /\ \A c \in Calls : /\ call[c].pc = "done" /\ call[c].retry /\ call[c].awaits = i
                        /\ call[c].hdr = promise[i].a /\ call[c].result = "ok"


\* C12: when the refresh a 401 triggered fails - no stored refresh token, the
\* server's rejection, or a network error - both cookies are removed and the
\* original call is rejected to its caller, for every caller that shared it.
C12_RefreshFailureClearsAndRejects ==
  [][/\ \A i \in Promises :
          promise[i].st = "pending" /\ promise'[i].st = "rejected"
            => /\ cookieA' = 0 /\ cookieR' = 0
               /\ \A c \in Calls : call[c].pc = "waiting" /\ call[c].awaits = i
                    => call'[c].pc = "done" /\ call'[c].result = "rejected"
     /\ \A c \in Calls :
          call[c].pc = "sent" /\ call'[c].pc = "done" /\ call'[c].retry
            => /\ cookieA' = 0 /\ cookieR' = 0
               /\ call'[c].result = "rejected"]_vars

\* two calls shared a refresh that a network error failed; both were
\* rejected and the cookies are gone
C12_Witness ==
  \E i \in Promises :
    /\ promise[i].st = "rejected" /\ promise[i].reply = "error"
    /\ \A c \in Calls : call[c].pc = "done" /\ call[c].awaits = i
                          /\ call[c].result = "rejected"
    /\ cookieA = 0 /\ cookieR = 0

\* C13: a refresh started by a 401 posts the refresh token stored at that
\* moment; when it succeeds with (A2, R2) the cookies hold exactly A2 and R2,
\* each awaiting call is re-issued, once, and the answer to the re-issued call
\* is what its caller gets.
C13_RefreshSuccessStoresAndRetries ==
  [][/\ \A i \in Promises :
          promise[i].st = "none" /\ promise'[i].st = "pending"
            => promise'[i].body = cookieR /\ cookieR # 0
     /\ \A i \in Promises :
          promise[i].st = "pending" /\ promise'[i].st = "resolved"
            => /\ cookieA' = promise[i].a /\ cookieR' = promise[i].r
               /\ \A c \in Calls : call[c].pc = "waiting" /\ call[c].awaits = i
                    => call'[c].pc = "resent"
     /\ \A c \in Calls :
          call[c].pc = "resent" /\ call'[c] # call[c]
            => /\ call'[c].pc = "done"
               /\ call'[c].result = IF call[c].hdr \in srvAccess THEN "ok" ELSE "rejected"]_vars

\* a call met a 401, its refresh succeeded, the cookies hold the pair the
\* refresh returned and the re-issued call has succeeded
C13_Witness ==
  \E i \in Promises, c \in Calls :
    /\ promise[i].st = "resolved" /\ promise[i].body # 0
    /\ cookieA = promise[i].a /\ cookieR = promise[i].r
    /\ call[c].pc = "done" /\ call[c].retry /\ call[c].awaits = i
    /\ call[c].result = "ok"

\* C14: the re-sent call carries the access token returned by the refresh its
\* caller awaited, whatever logins, logouts and refreshes changed the cookies
\* while that refresh was under way.
C14_ResendCarriesAwaitedToken ==
  [][\A c \in Calls :
       call[c].pc = "waiting" /\ call'[c].pc = "resent"
         => /\ promise'[call[c].awaits].st = "resolved"
            /\ call'[c].hdr = promise'[call[c].awaits].a
            /\ call'[c].hdr # 0]_vars

\* a login stored its pair after the server had answered the refresh and
\* before the client took the answer; the call was re-sent with the token of
\* the refresh it awaited
C14_Witness ==
  \E i \in Promises, c \in Calls :
    /\ promise[i].st = "resolved"
    /\ \A j \in Promises : j # i => promise[j].st = "none"
    /\ call[c].pc = "resent" /\ call[c].awaits = i /\ call[c].hdr = promise[i].a
    /\ authPc = "returned" /\ authCall.op = "login" /\ authCall.result = "ok"
    /\ \E a \in srvAccess : a > promise[i].a

\* C15: a failed call of apiClient.auth - a 401 to POST /api/auth/login or to
\* POST /api/auth/refresh, or any other error - is rejected to its caller as
\* it is: no refresh is started or awaited and the cookies stay as they were.
C15_OnlyAccessFailuresRefresh ==
  [][(authPc \in {"login", "refresh"}) /\ authPc' # authPc /\ authCall'.result # "ok"
       => /\ authPc' = "returned"
          /\ authCall'.result = "rejected"
          /\ cookieA' = cookieA /\ cookieR' = cookieR
          /\ refreshPromise' = refreshPromise /\ promise' = promise]_vars

\* C18: when apiClient.auth.logout returns, both cookies are absent and
\* getCurrentUser reports both as null - the server request having succeeded,
\* failed, or not been sent for want of a refresh token.
C18_LogoutClearsPair ==
  [][authCall'.op = "logout" /\ authPc' = "returned" /\ authPc # "returned"
       => /\ cookieA' = 0 /\ cookieR' = 0
          /\ getCurrentUser' = [accessToken |-> 0, refreshToken |-> 0]]_vars

\* logout has returned after its server request failed: the row is still on
\* the server, the cookies are gone
C18_Witness ==
  /\ authPc = "returned" /\ authCall.op = "logout" /\ authCall.result = "loggedout"
  /\ authCall.body \in srvRefresh
  /\ cookieA = 0 /\ cookieR = 0

\* C19: in every state of the client, when the refresh-token cookie is absent
\* the access-token cookie is absent too: getCurrentUser reports no access
\* token and no call leaves with an Authorization header.
C19_NoAccessWithoutRefresh ==
  /\ [](getCurrentUser.refreshToken = 0 => getCurrentUser.accessToken = 0)
  /\ [][\A c \in Calls :
          call'[c].pc \in {"sent", "resent"} /\ call'[c] # call[c] /\ cookieR' = 0
            => call'[c].hdr = 0]_vars

\* both cookies have gone while the server still holds the session's row and
\* accepts an access token, and a call has left without Authorization header
C19_Witness ==
  /\ cookieR = 0 /\ cookieA = 0
  /\ srvRefresh # {} /\ srvAccess # {}
  /\ authPc = "idle"
  /\ \E c \in Calls : call[c].pc = "sent" /\ call[c].hdr = 0

\* C21: an operation that issues a refresh token for a subject - a login with
\* the right secret, a refresh that has taken its old row out - succeeds
\* whatever other operation issues for the same subject at the same moment,
\* the same clock second included, and leaves a new row that was not in the
\* store before.
C21_ConcurrentIssuesBothSucceed ==
  [][((last'.op = "login" /\ authenticateUser(last'.who, last'.pw) # "-")
        \/ (last'.op = "refresh" /\ last'.at \in {"store", "done"}))
       => /\ last'.status = 200
          /\ ~HasRow(store, last'.r)
          /\ HasRow(store', last'.r)]_vars

\* C22: a refresh that answers a failure leaves the store as it was, and a
\* refresh that has removed its token's row ends by answering the new pair
\* whose refresh token is stored.
C22_RefreshIsAtomic ==
  [][/\ (last'.op = "refresh" /\ last'.status # 200 => store' = store)
     /\ \A p \in Procs :
          pc[p] = "removed" /\ pc'[p] = "idle"
            => /\ last'.op = "refresh" /\ last'.status = 200
               /\ HasRow(store', last'.r)]_vars

\* C23: removeRefreshToken called for a value that has no row does not fail
\* and leaves the store as it is, so removing a token twice ends like
\* removing it once.
C23_RemoveIsIdempotent ==
  \A t \in KnownRefresh :
    LET once == removeRefreshToken(store, t) IN
    /\ (~HasRow(store, t) => CanRemove(store, t) /\ once = store)
    /\ CanRemove(once, t)
    /\ removeRefreshToken(once, t) = once

\* C24 as stated: isRefreshTokenValid(T) returns false when T has no row;
\* when T's row has expiresAt <= now it deletes the row and returns false;
\* otherwise it returns true and leaves the store as it is.  The cleanup of a
\* login deletes exactly the subject's rows with expiresAt <= now.
C24_ExpiryBoundaryInclusive ==
  [][/\ (last'.op = "isValid"
           => IF ~HasRow(store, last'.tok)
              THEN last'.code = "false" /\ store' = store
              ELSE IF \E r \in RowsOf(store, last'.tok) : r.expiresAt <= now
              THEN last'.code = "false" /\ ~HasRow(store', last'.tok)
              ELSE last'.code = "true" /\ store' = store)
     /\ (last'.op = "login" /\ last'.status = 200
           => \A r \in store : r.userId = last'.who
                => (r \notin store' <=> r.expiresAt <= now))]_vars

\* C24 amended: the same with the boundary excluded - a row is expired when
\* expiresAt < now, and a row with expiresAt = now is still valid and is kept.
C24_ExpiryBoundaryExclusive ==
  [][/\ (last'.op = "isValid"
           => IF ~HasRow(store, last'.tok)
              THEN last'.code = "false" /\ store' = store
              ELSE IF \E r \in RowsOf(store, last'.tok) : r.expiresAt < now
              THEN last'.code = "false" /\ ~HasRow(store', last'.tok)
              ELSE last'.code = "true" /\ store' = store)
     /\ (last'.op = "login" /\ last'.status = 200
           => \A r \in store : r.userId = last'.who
                => (r \notin store' <=> r.expiresAt < now))]_vars

\* isRefreshTokenValid has just answered true for a row at the very instant of
\* its expiresAt, and the row is still there
C24_Witness ==
  /\ last.op = "isValid" /\ last.code = "true"
  /\ \E r \in RowsOf(store, last.tok) : r.expiresAt = now

\* C25: when cleanupExpiredTokens fails in a login or a register that has
\* verified the credentials and stored the refresh token, the operation still
\* answers success with the token pair.
C25_HousekeepingIsAdvisory ==
  last.op \in {"login", "register"} /\ last.at = "cleanup"
    => /\ last.status \in {200, 201}
       /\ last.a # NoTok /\ last.r # NoTok
       /\ HasRow(store, last.r)

\* C26: a refresh of a token whose 7 days have passed answers 401
\* INVALID_REFRESH_TOKEN and the token's row is not in the store afterwards.
C26_LazyExpiryThroughRefresh ==
  last.op = "refresh"
    /\ (\E k \in issued : k.r = last.tok /\ now > k.t0 + STORE_TTL_MS)
    => /\ last.status = 401 /\ last.code = "INVALID_REFRESH_TOKEN"
       /\ ~HasRow(store, last.tok)

\* C27: a refresh of T that fails and any logout of T change no row other
\* than T's own: every row of another token value, of the same subject or of
\* another, is in the store afterwards exactly if it was there before.
C27_NoEffectOnSiblings ==
  [][(last'.op = "logout" \/ (last'.op = "refresh" /\ last'.status # 200))
       => \A r \in store \cup store' :
            r.token # last'.tok => (r \in store <=> r \in store')]_vars

\* a refresh with a token that was rotated out or logged out has just failed
\* while a row of the same subject and a row of another subject are stored
C27_Witness ==
  /\ last.op = "refresh" /\ last.status = 401 /\ last.at = "check"
  /\ gone \cap {Gone(last.tok, "rotated"), Gone(last.tok, "consumed"), Gone(last.tok, "logout")} # {}
  /\ \E r \in store : r.userId = last.tok.userId /\ r.token # last.tok
  /\ \E r \in store : r.userId # last.tok.userId

\* C28: a call goes through at most one refresh and one re-send: it leaves,
\* is answered, awaits a refresh only if it was not retried before, is re-sent
\* only after that refresh, and the answer to the re-sent call ends it without
\* another refresh; each step takes it forward, so it ends after at most four.
C28_BoundedRetry ==
  [][\A c \in Calls :
       call'[c] # call[c]
         => /\ <<call[c].pc, call'[c].pc>> \in
                 {<<"idle", "sent">>, <<"sent", "done">>, <<"sent", "waiting">>,
                  <<"waiting", "resent">>, <<"waiting", "done">>, <<"resent", "done">>}
            /\ (call'[c].pc = "waiting" => ~call[c].retry /\ call'[c].retry)
            /\ (call'[c].pc = "resent" => call[c].retry)
            /\ (call[c].pc = "resent"
                  => promise' = promise /\ refreshPromise' = refreshPromise)]_vars

\* a call was re-sent after its refresh, the re-sent call met a 401 again and
\* was rejected to its caller; no second refresh was started
C28_Witness ==
  \E c \in Calls, i \in Promises :
    /\ call[c].pc = "done" /\ call[c].retry /\ call[c].awaits = i
    /\ promise[i].st = "resolved" /\ call[c].hdr = promise[i].a
    /\ call[c].result = "rejected"
    /\ refreshPromise = 0
    /\ \A j \in Promises : j # i => promise[j].st = "none"

\* C29: refreshPromise is set only while its refresh is pending: the step in
\* which a refresh settles, successfully or not, leaves it null, and a call
\* that starts waiting after a 401 waits on a refresh that is pending, posted
\* once, never on one already settled.
C29_MarkerClearedAfterRefresh ==
  /\ [](refreshPromise # 0 => promise[refreshPromise].st = "pending")
  /\ [][/\ \A i \in Promises :
             promise[i].st = "pending" /\ promise'[i].st # "pending"
               => refreshPromise' = 0
        /\ \A c \in Calls :
             call[c].pc = "sent" /\ call'[c].pc = "waiting"
               => /\ promise'[call'[c].awaits].st = "pending"
                  /\ promise'[call'[c].awaits].posts = 1
                  /\ (refreshPromise = 0 => promise[call'[c].awaits].st = "none")]_vars

\* a refresh has settled and its caller has resumed; a later call met a 401
\* and waits on a new refresh that is pending
C29_Witness ==
  \E i, j \in Promises, c, d \in Calls :
    /\ i # j /\ c # d
    /\ promise[i].st = "resolved" /\ call[c].awaits = i /\ call[c].pc \in {"resent", "done"}
    /\ promise[j].st = "pending" /\ refreshPromise = j
    /\ call[d].pc = "waiting" /\ call[d].awaits = j

\* C30: at any time at most one POST /api/auth/refresh of the client is in
\* flight, the refresh a 401 started and the one auth.refresh sends taken
\* together, and no two of them carry the same refresh token.
C30_OneRefreshInFlight ==
  LET pending == {i \in Promises : promise[i].st = "pending"}
      explicit == IF authCall.op = "refresh" /\ authPc \in {"refresh", "resent"}
                  THEN {authCall.body} ELSE {}
  IN
  /\ Cardinality(pending) + Cardinality(explicit) <= 1
  /\ \A i \in pending : promise[i].body \notin explicit

====
